---------------------------- MODULE Spec2Model ----------------------------
(***************************************************************************)
(* The karaoke pipeline of main.py as a state machine.                     *)
(*                                                                         *)
(* The state is the file system the stages communicate through (files      *)
(* with a write state and the video they were derived from, and the cache  *)
(* directories), plus, for every invocation of the script, the position    *)
(* in main()/create() and the locals of the functions on the stack.        *)
(* Paths are sequences of tokens ("a", "/", "song", ".mp4"), so that the   *)
(* string operations of the code (replace, split, basename, splitext,      *)
(* join, f-strings) are computed and not assumed.                          *)
(* The third-party models (demucs, whisper, moviepy) are opaque: a result  *)
(* carries the video it was computed from and, for stems, the waveforms.   *)
(* A file write is two steps (created, then complete), which is what the   *)
(* encoders do on the target path.                                         *)
(***************************************************************************)
EXTENDS Integers, Sequences, FiniteSets, TLC

\* ------------------------------------------------------------- bounds
\* Invocations of the script launched in one behaviour.
MaxRuns == 3
\* Samples per channel of a modelled waveform.
WaveLen == 2

\* ------------------------------------------------------ program constants
NUM_PASSES == 1

\* ------------------------------------------------------------- paths
\* The two invocations that may exist at a time.
Procs == {"A", "B"}

\* The command lines tried: the same file name in two directories, one of
\* them also spelled with a back-slash, and another file name.
Args ==
    { <<"song", ".mp4">>,
      <<"a", "/", "song", ".mp4">>,
      <<"a", "\\", "song", ".mp4">>,
      <<"b", "/", "tune", ".mp4">> }

\* File-name extensions os.path.splitext recognises among the tokens.
Extensions == {".mp4", ".mp3", ".srt"}

Empty == << >>

\* str.replace(old, new): every occurrence.
Replace(path, old, new) ==
    [i \in 1..Len(path) |-> IF path[i] = old THEN new ELSE path[i]]

\* Index of the last "/" of a path, 0 when there is none.
LastSlash(path) ==
    LET S == {i \in 1..Len(path) : path[i] = "/"}
    IN  IF S = {} THEN 0 ELSE CHOOSE i \in S : \A j \in S : j <= i

\* path.split("/")[-1] and os.path.basename(path).
Basename(path) == SubSeq(path, LastSlash(path) + 1, Len(path))

\* os.path.splitext(name)[0]: the name without its last extension.
SplitextRoot(name) ==
    IF Len(name) > 1 /\ name[Len(name)] \in Extensions
    THEN SubSeq(name, 1, Len(name) - 1)
    ELSE name

\* What os.path.exists and the writers resolve a path to: "./x" is "x".
Resolve(path) ==
    IF Len(path) >= 2 /\ path[1] = "." /\ path[2] = "/"
    THEN SubSeq(path, 3, Len(path))
    ELSE path

\* Mutant: the extension is not replaced.
AudioPathSame(video) == video

\* video_path.replace(".mp4", ".mp3")
AudioPathOf(video) == Replace(video, ".mp4", ".mp3")

\* f"./stems/{stem}_{audio_filename}"
StemPath(stem, audio_filename) ==
    <<".", "/", "stems", "/", stem, "_">> \o audio_filename

\* os.path.join("./subtitles", splitext(basename(audiofile_path))[0] + '.srt')
SubtitlePathOf(audiofile_path) ==
    <<".", "/", "subtitles", "/">>
        \o SplitextRoot(Basename(audiofile_path)) \o <<".srt">>

\* get_writer("srt", "./subtitles") called with audiofile_path: the writer
\* names its file <output_dir>/<basename without extension>.srt.
WriterPathOf(audiofile_path) ==
    <<".", "/", "subtitles", "/">>
        \o SplitextRoot(Basename(audiofile_path)) \o <<".srt">>

\* f"./output/karaoke_{os.path.basename(video_path)}"
OutputPathOf(video) ==
    <<".", "/", "output", "/", "karaoke_">> \o Basename(video)

\* args.video_path.replace("\\", "/")
NormalizeArg(arg) == Replace(arg, "\\", "/")

\* ------------------------------------------------------------- state
VARIABLES
    platform,         \* platform.system() of the host
    fs,               \* resolved path -> [state, from, wav]
    dirs,             \* the cache directories that exist
    runs,             \* invocations launched so far
    last,             \* the invocation that exited last: [video, ok]
    deleted,          \* paths removed since the last launch
    pc,               \* position of each invocation
    argv,             \* its command-line argument
    imagemagick_path, \* module-level setting of lines 28-35
    video_path, audio_path, vocals_path, music_path, subtitles_file,
    separated,        \* result of separator.separate_audio_file
    todo,             \* stems the loop of line 68 has still to save
    stem,             \* the stem the loop is saving
    pass_i, last_result,
    ctx,              \* what the invocation found at launch: [prev, deleted]
    ops               \* what the invocation did: a set of events

globals == <<platform, fs, dirs, runs, last, deleted>>
paths == <<video_path, audio_path, vocals_path, music_path, subtitles_file>>
sepvars == <<separated, todo, stem>>
trvars == <<pass_i, last_result>>
vars == <<platform, fs, dirs, runs, last, deleted, pc, argv, imagemagick_path,
          video_path, audio_path, vocals_path, music_path, subtitles_file,
          separated, todo, stem, pass_i, last_result, ctx, ops>>

\* ------------------------------------------------------------- files
StemNames == {"vocals", "drums", "bass", "other"}
\* The order of separated.items(): the order of the separation model's
\* sources.
StemOrder == <<"drums", "bass", "other", "vocals">>
Samples == {0, 1}
Waves == [1..WaveLen -> Samples]
Silence == [i \in 1..WaveLen |-> 0]
NoWave == << >>

File(state, from, wav) == [state |-> state, from |-> from, wav |-> wav]

\* The videos on disk before the first invocation.
Videos == {Resolve(NormalizeArg(a)) : a \in Args}
InitFs == [v \in Videos |-> File("complete", v, NoWave)]

\* os.path.exists
Exists(path) == Resolve(path) \in DOMAIN fs

\* The file system with `path` holding `file`.
Put(path, file) ==
    [q \in DOMAIN fs \cup {Resolve(path)} |->
        IF q = Resolve(path) THEN file ELSE fs[q]]

\* The file system without `path`.
Without(path) == [q \in DOMAIN fs \ {Resolve(path)} |-> fs[q]]

\* An event of an invocation: stage s did k to path f, whose content was
\* derived from video src and was in write state st.
Ev(k, s, f, src, st) == [k |-> k, s |-> s, f |-> Resolve(f), src |-> src, st |-> st]
ReadEv(s, f) == Ev("read", s, f, fs[Resolve(f)].from, fs[Resolve(f)].state)
HitEv(s, f) == Ev("hit", s, f, fs[Resolve(f)].from, fs[Resolve(f)].state)
WriteEv(s, f, src) == Ev("write", s, f, src, "complete")
RunEv(s, f) == Ev("run", s, f, Empty, "complete")

NoRun == [video |-> Empty, ok |-> FALSE]

\* The state before the first invocation, on one of the given hosts.
InitOn(hosts) ==
    /\ platform \in hosts
    /\ fs = InitFs
    /\ dirs = {}
    /\ runs = 0
    /\ last = NoRun
    /\ deleted = {}
    /\ pc = [p \in Procs |-> "idle"]
    /\ argv = [p \in Procs |-> Empty]
    /\ imagemagick_path = [p \in Procs |-> "unset"]
    /\ video_path = [p \in Procs |-> Empty]
    /\ audio_path = [p \in Procs |-> Empty]
    /\ vocals_path = [p \in Procs |-> Empty]
    /\ music_path = [p \in Procs |-> Empty]
    /\ subtitles_file = [p \in Procs |-> Empty]
    /\ separated = [p \in Procs |-> Empty]
    /\ todo = [p \in Procs |-> << >>]
    /\ stem = [p \in Procs |-> "none"]
    /\ pass_i = [p \in Procs |-> 0]
    /\ last_result = [p \in Procs |-> Empty]
    /\ ctx = [p \in Procs |-> [prev |-> NoRun, deleted |-> {}]]
    /\ ops = [p \in Procs |-> {}]

Init == InitOn({"Darwin", "Windows", "Linux"})

\* ------------------------------------------------------ launch, startup
\* `python main.py <arg>`: a fresh interpreter.
Launch(p, arg) ==
    /\ pc[p] = "idle"
    /\ runs < MaxRuns
    /\ runs' = runs + 1
    /\ pc' = [pc EXCEPT ![p] = "startup"]
    /\ argv' = [argv EXCEPT ![p] = arg]
    /\ imagemagick_path' = [imagemagick_path EXCEPT ![p] = "unset"]
    /\ video_path' = [video_path EXCEPT ![p] = Empty]
    /\ audio_path' = [audio_path EXCEPT ![p] = Empty]
    /\ vocals_path' = [vocals_path EXCEPT ![p] = Empty]
    /\ music_path' = [music_path EXCEPT ![p] = Empty]
    /\ subtitles_file' = [subtitles_file EXCEPT ![p] = Empty]
    /\ separated' = [separated EXCEPT ![p] = Empty]
    /\ todo' = [todo EXCEPT ![p] = << >>]
    /\ stem' = [stem EXCEPT ![p] = "none"]
    /\ pass_i' = [pass_i EXCEPT ![p] = 0]
    /\ last_result' = [last_result EXCEPT ![p] = Empty]
    /\ ctx' = [ctx EXCEPT ![p] = [prev |-> last, deleted |-> deleted]]
    /\ ops' = [ops EXCEPT ![p] = {}]
    /\ deleted' = {}
    /\ UNCHANGED <<platform, fs, dirs, last>>

\* Mutant: the else branch falls through instead of raising.
SupportedAny(system) == TRUE

\* Lines 28-33: the operating systems the module recognises.
Supported(system) == system \in {"Darwin", "Windows"}

MagickOf(system) ==
    IF system = "Darwin" THEN "/opt/homebrew/bin/magick"
    ELSE "C:/Program Files/ImageMagick-7.1.1-Q16-HDRI/magick.exe"

\* Module body, lines 28-35: raise NotImplementedError on any other system.
PlatformCheck(p) ==
    /\ pc[p] = "startup"
    /\ IF Supported(platform)
       THEN /\ imagemagick_path' = [imagemagick_path EXCEPT ![p] = MagickOf(platform)]
            /\ pc' = [pc EXCEPT ![p] = "main"]
       ELSE /\ pc' = [pc EXCEPT ![p] = "crashed"]
            /\ UNCHANGED imagemagick_path
    /\ UNCHANGED <<globals, argv, paths, sepvars, trvars, ctx, ops>>

\* main(), lines 199-204: parse the argument, normalise the separators.
Main(p) ==
    /\ pc[p] = "main"
    /\ video_path' = [video_path EXCEPT ![p] = NormalizeArg(argv[p])]
    /\ pc' = [pc EXCEPT ![p] = "video_to_mp3"]
    /\ UNCHANGED <<globals, argv, imagemagick_path, audio_path, vocals_path,
                   music_path, subtitles_file, sepvars, trvars, ctx, ops>>

\* The interpreter exits: normally, or with the traceback of an exception.
Exit(p) ==
    /\ pc[p] \in {"done", "aborted", "crashed"}
    /\ last' = [video |-> Resolve(video_path[p]), ok |-> pc[p] = "done"]
    /\ pc' = [pc EXCEPT ![p] = "idle"]
    /\ UNCHANGED <<platform, fs, dirs, runs, deleted, argv, imagemagick_path,
                   paths, sepvars, trvars, ctx, ops>>

\* ------------------------------------------------------ video_to_mp3
\* Mutant: the audio is extracted again whatever is on disk.
AudioNeverCached(path) == FALSE

\* Mutant: a cache check that accepts complete files only.
AudioCachedIfComplete(path) ==
    Exists(path) /\ fs[Resolve(path)].state = "complete"

\* Line 42: os.path.exists(audio_path).
AudioCached(path) == Exists(path)

\* Lines 41-43: derive the audio path, return it if it exists.
VideoToMp3(p) ==
    /\ pc[p] = "video_to_mp3"
    /\ LET ap == AudioPathOf(video_path[p]) IN
        /\ audio_path' = [audio_path EXCEPT ![p] = ap]
        /\ IF AudioCached(ap)
           THEN /\ pc' = [pc EXCEPT ![p] = "separate_stems"]
                /\ ops' = [ops EXCEPT ![p] = @ \cup {HitEv("extractor", ap)}]
           ELSE /\ pc' = [pc EXCEPT ![p] = "extract"]
                /\ UNCHANGED ops
    /\ UNCHANGED <<globals, argv, imagemagick_path, video_path, vocals_path,
                   music_path, subtitles_file, sepvars, trvars, ctx>>

\* Lines 45-46: open the video, start writing the audio file.
ExtractBegin(p) ==
    /\ pc[p] = "extract"
    /\ fs' = Put(audio_path[p],
                 File("partial", fs[Resolve(video_path[p])].from, NoWave))
    /\ ops' = [ops EXCEPT ![p] = @ \cup
                 { RunEv("extractor", video_path[p]),
                   ReadEv("extractor", video_path[p]),
                   WriteEv("extractor", audio_path[p],
                           fs[Resolve(video_path[p])].from) }]
    /\ pc' = [pc EXCEPT ![p] = "extracting"]
    /\ UNCHANGED <<platform, dirs, runs, last, deleted, argv, imagemagick_path,
                   paths, sepvars, trvars, ctx>>

\* Lines 46-48: write_audiofile finishes, the path is returned.
ExtractEnd(p) ==
    /\ pc[p] = "extracting"
    /\ fs' = Put(audio_path[p], [fs[Resolve(audio_path[p])] EXCEPT !.state = "complete"])
    /\ pc' = [pc EXCEPT ![p] = "separate_stems"]
    /\ UNCHANGED <<platform, dirs, runs, last, deleted, argv, imagemagick_path,
                   paths, sepvars, trvars, ctx, ops>>

\* ------------------------------------------------------ separate_stems
\* Lines 54-55: create ./stems when it is absent.
StemsDir(p) ==
    /\ pc[p] = "separate_stems"
    /\ dirs' = dirs \cup {"stems"}
    /\ pc' = [pc EXCEPT ![p] = "stems_check"]
    /\ UNCHANGED <<platform, fs, runs, last, deleted, argv, imagemagick_path,
                   paths, sepvars, trvars, ctx, ops>>

\* Line 59: os.path.exists(f"./stems/vocals_{audio_filename}").
StemsCached(audio_filename) == Exists(StemPath("vocals", audio_filename))

\* Lines 57-60: the cache check on the vocals path alone; a hit returns
\* both paths.
StemsCheck(p) ==
    /\ pc[p] = "stems_check"
    /\ LET audio_filename == Basename(audio_path[p]) IN
        IF StemsCached(audio_filename)
        THEN /\ vocals_path' = [vocals_path EXCEPT ![p] = StemPath("vocals", audio_filename)]
             /\ music_path' = [music_path EXCEPT ![p] = StemPath("music", audio_filename)]
             /\ ops' = [ops EXCEPT ![p] = @ \cup
                          {HitEv("separator", StemPath("vocals", audio_filename))}]
             /\ pc' = [pc EXCEPT ![p] = "load_music"]
        ELSE /\ pc' = [pc EXCEPT ![p] = "separate"]
             /\ UNCHANGED <<vocals_path, music_path, ops>>
    /\ UNCHANGED <<globals, argv, imagemagick_path, video_path, audio_path,
                   subtitles_file, sepvars, trvars, ctx>>

\* The separation results tried in the pipeline runs, and all of them.
QuietOutputs == {[s \in StemNames |-> Silence]}
AllOutputs == [StemNames -> Waves]

\* Lines 64-66: the separation model reads the audio file and returns one
\* waveform per stem; outs are the results it may return.
SeparateAudioFile(p, outs) ==
    /\ pc[p] = "separate"
    /\ \E res \in outs :
         separated' = [separated EXCEPT ![p] =
                          [from |-> fs[Resolve(audio_path[p])].from, wav |-> res]]
    /\ todo' = [todo EXCEPT ![p] = StemOrder]
    /\ ops' = [ops EXCEPT ![p] = @ \cup
                 { RunEv("separator", audio_path[p]),
                   ReadEv("separator", audio_path[p]) }]
    /\ pc' = [pc EXCEPT ![p] = "save_stems"]
    /\ UNCHANGED <<globals, argv, imagemagick_path, paths, stem, trvars, ctx>>

\* Lines 68-70: the loop saves the next stem of the result. The file
\* appears before it is complete.
SaveStemBegin(p) ==
    /\ pc[p] = "save_stems"
    /\ todo[p] /= << >>
    /\ stem' = [stem EXCEPT ![p] = Head(todo[p])]
    /\ fs' = Put(StemPath(Head(todo[p]), Basename(audio_path[p])),
                 File("partial", separated[p].from, separated[p].wav[Head(todo[p])]))
    /\ ops' = [ops EXCEPT ![p] = @ \cup
                 {WriteEv("separator", StemPath(Head(todo[p]), Basename(audio_path[p])),
                          separated[p].from)}]
    /\ pc' = [pc EXCEPT ![p] = "saving_stem"]
    /\ UNCHANGED <<platform, dirs, runs, last, deleted, argv, imagemagick_path,
                   paths, separated, todo, trvars, ctx>>

\* Lines 69-70: save_audio returns.
SaveStemEnd(p) ==
    /\ pc[p] = "saving_stem"
    /\ LET f == StemPath(stem[p], Basename(audio_path[p])) IN
         fs' = Put(f, [fs[Resolve(f)] EXCEPT !.state = "complete"])
    /\ todo' = [todo EXCEPT ![p] = Tail(@)]
    /\ pc' = [pc EXCEPT ![p] = "save_stems"]
    /\ UNCHANGED <<platform, dirs, runs, last, deleted, argv, imagemagick_path,
                   paths, separated, stem, trvars, ctx, ops>>

\* Mutant: the vocals are mixed in as well.
MusicMixWithVocals(wav) ==
    [i \in 1..WaveLen |->
        ((wav["other"][i] + wav["drums"][i]) + wav["bass"][i]) + wav["vocals"][i]]

\* Line 73: separated["other"] + separated["drums"] + separated["bass"].
MusicMix(wav) ==
    [i \in 1..WaveLen |-> (wav["other"][i] + wav["drums"][i]) + wav["bass"][i]]

\* Lines 72-73: after the loop, start saving the music file.
SaveMusicBegin(p) ==
    /\ pc[p] = "save_stems"
    /\ todo[p] = << >>
    /\ fs' = Put(StemPath("music", Basename(audio_path[p])),
                 File("partial", separated[p].from, MusicMix(separated[p].wav)))
    /\ ops' = [ops EXCEPT ![p] = @ \cup
                 {WriteEv("separator", StemPath("music", Basename(audio_path[p])),
                          separated[p].from)}]
    /\ pc' = [pc EXCEPT ![p] = "saving_music"]
    /\ UNCHANGED <<platform, dirs, runs, last, deleted, argv, imagemagick_path,
                   paths, sepvars, trvars, ctx>>

\* Lines 73-75: save_audio returns, both paths are returned.
SaveMusicEnd(p) ==
    /\ pc[p] = "saving_music"
    /\ LET f == StemPath("music", Basename(audio_path[p])) IN
         fs' = Put(f, [fs[Resolve(f)] EXCEPT !.state = "complete"])
    /\ vocals_path' = [vocals_path EXCEPT ![p] = StemPath("vocals", Basename(audio_path[p]))]
    /\ music_path' = [music_path EXCEPT ![p] = StemPath("music", Basename(audio_path[p]))]
    /\ pc' = [pc EXCEPT ![p] = "load_music"]
    /\ UNCHANGED <<platform, dirs, runs, last, deleted, argv, imagemagick_path,
                   video_path, audio_path, subtitles_file, sepvars, trvars, ctx, ops>>

\* ------------------------------------------------------ create: loading
\* A media loader of create (AudioFileClip, VideoFileClip) opens `path` and
\* the run goes on at `next`; a missing file raises and ends the run.
Load(p, at, path, next) ==
    /\ pc[p] = at
    /\ IF Exists(path)
       THEN /\ ops' = [ops EXCEPT ![p] = @ \cup {ReadEv("composer", path)}]
            /\ pc' = [pc EXCEPT ![p] = next]
       ELSE /\ ops' = [ops EXCEPT ![p] = @ \cup
                         {Ev("abort", "composer", path, Empty, "complete")}]
            /\ pc' = [pc EXCEPT ![p] = "aborted"]
    /\ UNCHANGED <<globals, argv, imagemagick_path, paths, sepvars, trvars, ctx>>

\* Line 136: AudioFileClip(music_path)
LoadMusic(p) == Load(p, "load_music", music_path[p], "load_vocals")

\* Lines 137-140: AudioFileClip(vocals_path)
LoadVocals(p) == Load(p, "load_vocals", vocals_path[p], "load_video")

\* Lines 142-146: VideoFileClip(video_path)
LoadVideo(p) == Load(p, "load_video", video_path[p], "transcribe")

\* ------------------------------------------------------ transcribe
\* Mutant: the full mix is transcribed instead of the vocals.
TranscribeMix(p) == audio_path[p]

\* Line 148: the audio file create hands to transcribe.
TranscribeInput(p) == vocals_path[p]

\* Mutant: the transcript is made again whatever is on disk.
SubtitleNeverCached(path) == FALSE

\* Line 93: os.path.exists(subtitle_path).
SubtitleCached(path) == Exists(path)

\* Lines 90-94: derive the subtitle path, return it if it exists.
TranscribeCheck(p) ==
    /\ pc[p] = "transcribe"
    /\ LET subtitle_path == SubtitlePathOf(TranscribeInput(p)) IN
        IF SubtitleCached(subtitle_path)
        THEN /\ subtitles_file' = [subtitles_file EXCEPT ![p] = subtitle_path]
             /\ ops' = [ops EXCEPT ![p] = @ \cup {HitEv("transcriber", subtitle_path)}]
             /\ pc' = [pc EXCEPT ![p] = "load_subs"]
        ELSE /\ pc' = [pc EXCEPT ![p] = "subs_dir"]
             /\ UNCHANGED <<subtitles_file, ops>>
    /\ UNCHANGED <<globals, argv, imagemagick_path, video_path, audio_path,
                   vocals_path, music_path, sepvars, trvars, ctx>>

\* Lines 96-97: create ./subtitles when it is absent.
SubsDir(p) ==
    /\ pc[p] = "subs_dir"
    /\ dirs' = dirs \cup {"subtitles"}
    /\ pc' = [pc EXCEPT ![p] = "load_model"]
    /\ UNCHANGED <<platform, fs, runs, last, deleted, argv, imagemagick_path,
                   paths, sepvars, trvars, ctx, ops>>

\* Lines 99-102: load the speech-to-text model, last_result = None.
LoadModel(p) ==
    /\ pc[p] = "load_model"
    /\ pass_i' = [pass_i EXCEPT ![p] = 0]
    /\ last_result' = [last_result EXCEPT ![p] = Empty]
    /\ pc' = [pc EXCEPT ![p] = "passes"]
    /\ UNCHANGED <<globals, argv, imagemagick_path, paths, sepvars, ctx, ops>>

\* Lines 103-107: one pass of the loop; the result replaces the last one.
TranscribePass(p) ==
    /\ pc[p] = "passes"
    /\ pass_i[p] < NUM_PASSES
    /\ Exists(TranscribeInput(p))
    /\ pass_i' = [pass_i EXCEPT ![p] = @ + 1]
    /\ last_result' = [last_result EXCEPT ![p] =
                          <<fs[Resolve(TranscribeInput(p))].from>>]
    /\ ops' = [ops EXCEPT ![p] = @ \cup
                 { RunEv("transcriber", TranscribeInput(p)),
                   ReadEv("transcriber", TranscribeInput(p)) }]
    /\ UNCHANGED <<globals, pc, argv, imagemagick_path, paths, sepvars, ctx>>

\* The except clause of lines 117-119: the error is printed and "" returned
\* to create.
Caught(p) ==
    /\ subtitles_file' = [subtitles_file EXCEPT ![p] = Empty]
    /\ ops' = [ops EXCEPT ![p] = @ \cup
                 {Ev("raise", "transcriber", Empty, Empty, "complete")}]
    /\ pc' = [pc EXCEPT ![p] = "load_subs"]

\* Lines 109-110: after the loop, no result is a ValueError.
PassesDone(p) ==
    /\ pc[p] = "passes"
    /\ pass_i[p] >= NUM_PASSES
    /\ IF last_result[p] = Empty
       THEN Caught(p)
       ELSE /\ pc' = [pc EXCEPT ![p] = "write_srt"]
            /\ UNCHANGED <<subtitles_file, ops>>
    /\ UNCHANGED <<globals, argv, imagemagick_path, video_path, audio_path,
                   vocals_path, music_path, sepvars, trvars, ctx>>

\* Lines 112-113: the writer starts the subtitle file.
SrtBegin(p) ==
    /\ pc[p] = "write_srt"
    /\ fs' = Put(WriterPathOf(TranscribeInput(p)),
                 File("partial", last_result[p][1], NoWave))
    /\ ops' = [ops EXCEPT ![p] = @ \cup
                 {WriteEv("transcriber", WriterPathOf(TranscribeInput(p)),
                          last_result[p][1])}]
    /\ pc' = [pc EXCEPT ![p] = "writing_srt"]
    /\ UNCHANGED <<platform, dirs, runs, last, deleted, argv, imagemagick_path,
                   paths, sepvars, trvars, ctx>>

\* Lines 113-115: the writer is done, subtitle_path is returned.
SrtEnd(p) ==
    /\ pc[p] = "writing_srt"
    /\ LET f == WriterPathOf(TranscribeInput(p)) IN
         fs' = Put(f, [fs[Resolve(f)] EXCEPT !.state = "complete"])
    /\ subtitles_file' = [subtitles_file EXCEPT ![p] = SubtitlePathOf(TranscribeInput(p))]
    /\ pc' = [pc EXCEPT ![p] = "load_subs"]
    /\ UNCHANGED <<platform, dirs, runs, last, deleted, argv, imagemagick_path,
                   video_path, audio_path, vocals_path, music_path, sepvars,
                   trvars, ctx, ops>>

\* The steps of transcribe inside the try block that call a library.
TrySteps == {"subs_dir", "load_model", "passes", "write_srt", "writing_srt"}

\* Lines 88-119: a library call inside the try block raises.
TranscribeRaise(p) ==
    /\ pc[p] \in TrySteps
    /\ Caught(p)
    /\ UNCHANGED <<globals, argv, imagemagick_path, video_path, audio_path,
                   vocals_path, music_path, sepvars, trvars, ctx>>

\* ------------------------------------------------------ create: output
\* Mutant: create skips the subtitles when it has no file for them.
SubtitlesOptional(path) == TRUE

\* Line 171: SubtitlesClip opens the file it is given.
SubtitlesLoadable(path) == path /= Empty /\ Exists(path)

\* Line 171: SubtitlesClip(subtitles_file, generator); no check of "".
LoadSubs(p) ==
    /\ pc[p] = "load_subs"
    /\ IF SubtitlesLoadable(subtitles_file[p])
       THEN /\ ops' = [ops EXCEPT ![p] = @ \cup
                        (IF Exists(subtitles_file[p])
                         THEN {ReadEv("composer", subtitles_file[p])} ELSE {})]
            /\ pc' = [pc EXCEPT ![p] = "output_dir"]
       ELSE /\ ops' = [ops EXCEPT ![p] = @ \cup
                         {Ev("abort", "composer", subtitles_file[p], Empty, "complete")}]
            /\ pc' = [pc EXCEPT ![p] = "aborted"]
    /\ UNCHANGED <<globals, argv, imagemagick_path, paths, sepvars, trvars, ctx>>

\* Lines 178-180: create ./output when it is absent.
OutputDir(p) ==
    /\ pc[p] = "output_dir"
    /\ dirs' = dirs \cup {"output"}
    /\ pc' = [pc EXCEPT ![p] = "write_video"]
    /\ UNCHANGED <<platform, fs, runs, last, deleted, argv, imagemagick_path,
                   paths, sepvars, trvars, ctx, ops>>

\* Line 181: write_videofile starts the output file.
WriteVideoBegin(p) ==
    /\ pc[p] = "write_video"
    /\ fs' = Put(OutputPathOf(video_path[p]),
                 File("partial", Resolve(video_path[p]), NoWave))
    /\ ops' = [ops EXCEPT ![p] = @ \cup
                 {WriteEv("composer", OutputPathOf(video_path[p]),
                          Resolve(video_path[p]))}]
    /\ pc' = [pc EXCEPT ![p] = "writing_video"]
    /\ UNCHANGED <<platform, dirs, runs, last, deleted, argv, imagemagick_path,
                   paths, sepvars, trvars, ctx>>

\* Lines 181-183: the output is written, create returns.
WriteVideoEnd(p) ==
    /\ pc[p] = "writing_video"
    /\ LET f == OutputPathOf(video_path[p]) IN
         fs' = Put(f, [fs[Resolve(f)] EXCEPT !.state = "complete"])
    /\ pc' = [pc EXCEPT ![p] = "done"]
    /\ UNCHANGED <<platform, dirs, runs, last, deleted, argv, imagemagick_path,
                   paths, sepvars, trvars, ctx, ops>>

\* ------------------------------------------------------ environment
\* The steps in which the run is inside a media library (decoding, the
\* separation model, encoding) and an error there propagates uncaught.
LibrarySteps ==
    {"extract", "extracting", "separate", "save_stems", "saving_stem",
     "saving_music", "write_video", "writing_video"}

\* An uncaught library error or an interrupt ends the run where it is;
\* what it has written so far stays on disk.
Interrupt(p) ==
    /\ pc[p] \in LibrarySteps
    /\ ops' = [ops EXCEPT ![p] = @ \cup
                 {Ev("abort", "library", Empty, Empty, "complete")}]
    /\ pc' = [pc EXCEPT ![p] = "aborted"]
    /\ UNCHANGED <<globals, argv, imagemagick_path, paths, sepvars, trvars, ctx>>

\* Between runs the user deletes one subtitle file.
RemoveSubtitle(f) ==
    /\ \A p \in Procs : pc[p] = "idle"
    /\ f \in DOMAIN fs
    /\ f[1] = "subtitles"
    /\ fs' = Without(f)
    /\ deleted' = deleted \cup {f}
    /\ UNCHANGED <<platform, dirs, runs, last, pc, argv, imagemagick_path,
                   paths, sepvars, trvars, ctx, ops>>

\* ------------------------------------------------------ specifications
\* One step of invocation p with the libraries working.
Step(p) ==
    \/ PlatformCheck(p)
    \/ Main(p)
    \/ VideoToMp3(p)
    \/ ExtractBegin(p)
    \/ ExtractEnd(p)
    \/ StemsDir(p)
    \/ StemsCheck(p)
    \/ SeparateAudioFile(p, QuietOutputs)
    \/ SaveStemBegin(p)
    \/ SaveStemEnd(p)
    \/ SaveMusicBegin(p)
    \/ SaveMusicEnd(p)
    \/ LoadMusic(p)
    \/ LoadVocals(p)
    \/ LoadVideo(p)
    \/ TranscribeCheck(p)
    \/ SubsDir(p)
    \/ LoadModel(p)
    \/ TranscribePass(p)
    \/ PassesDone(p)
    \/ SrtBegin(p)
    \/ SrtEnd(p)
    \/ LoadSubs(p)
    \/ OutputDir(p)
    \/ WriteVideoBegin(p)
    \/ WriteVideoEnd(p)
    \/ Exit(p)

\* Runs one after the other from one shell, the libraries working,
\* subtitle files deleted between runs.
Next ==
    \/ \E arg \in Args : Launch("A", arg)
    \/ Step("A")
    \/ \E f \in DOMAIN fs : RemoveSubtitle(f)

Spec == Init /\ [][Next]_vars

\* Runs one after the other in which library calls may fail, on a host the
\* module supports.
NextFault ==
    \/ \E arg \in Args : Launch("A", arg)
    \/ Step("A")
    \/ TranscribeRaise("A")
    \/ Interrupt("A")

SpecFault == InitOn({"Darwin"}) /\ [][NextFault]_vars

\* Two invocations at once on the same video, the libraries working.
SameVideo(arg) ==
    \A q \in Procs : argv[q] = Empty \/ NormalizeArg(argv[q]) = NormalizeArg(arg)

NextConc ==
    \/ \E p \in Procs : \E arg \in Args :
          argv[p] = Empty /\ SameVideo(arg) /\ Launch(p, arg)
    \/ \E p \in Procs : Step(p)

SpecConc == InitOn({"Darwin"}) /\ [][NextConc]_vars

\* separate_stems alone, for every result of the separation model: the
\* state in which video_to_mp3 has just returned for song.mp4.
InitSep ==
    /\ platform = "Darwin"
    /\ fs = [q \in Videos \cup {<<"song", ".mp3">>} |->
               File("complete", IF q \in Videos THEN q ELSE <<"song", ".mp4">>, NoWave)]
    /\ dirs = {}
    /\ runs = 1
    /\ last = NoRun
    /\ deleted = {}
    /\ pc = [p \in Procs |-> IF p = "A" THEN "separate_stems" ELSE "idle"]
    /\ argv = [p \in Procs |-> IF p = "A" THEN <<"song", ".mp4">> ELSE Empty]
    /\ imagemagick_path = [p \in Procs |-> IF p = "A" THEN MagickOf("Darwin") ELSE "unset"]
    /\ video_path = [p \in Procs |-> IF p = "A" THEN <<"song", ".mp4">> ELSE Empty]
    /\ audio_path = [p \in Procs |-> IF p = "A" THEN <<"song", ".mp3">> ELSE Empty]
    /\ vocals_path = [p \in Procs |-> Empty]
    /\ music_path = [p \in Procs |-> Empty]
    /\ subtitles_file = [p \in Procs |-> Empty]
    /\ separated = [p \in Procs |-> Empty]
    /\ todo = [p \in Procs |-> << >>]
    /\ stem = [p \in Procs |-> "none"]
    /\ pass_i = [p \in Procs |-> 0]
    /\ last_result = [p \in Procs |-> Empty]
    /\ ctx = [p \in Procs |-> [prev |-> NoRun, deleted |-> {}]]
    /\ ops = [p \in Procs |->
                IF p = "A"
                THEN { Ev("run", "extractor", <<"song", ".mp4">>, Empty, "complete"),
                       Ev("read", "extractor", <<"song", ".mp4">>, <<"song", ".mp4">>, "complete"),
                       Ev("write", "extractor", <<"song", ".mp3">>, <<"song", ".mp4">>, "complete") }
                ELSE {}]

NextSep ==
    \/ StemsDir("A")
    \/ StemsCheck("A")
    \/ SeparateAudioFile("A", AllOutputs)
    \/ SaveStemBegin("A")
    \/ SaveStemEnd("A")
    \/ SaveMusicBegin("A")
    \/ SaveMusicEnd("A")

SpecSep == InitSep /\ [][NextSep]_vars

\* ------------------------------------------------------------- claims
Runs(p, s) == {e \in ops[p] : e.k = "run" /\ e.s = s}
Writes(p, s) == {e \in ops[p] : e.k = "write" /\ e.s = s}
\* The stages that wrote, and that read, file f in the run of p.
Writers(p, f) == {e.s : e \in {x \in ops[p] : x.k = "write" /\ x.f = f}}
Readers(p, f) == {e.s : e \in {x \in ops[p] : x.k = "read" /\ x.f = f}}
\* The run of p is over (its interpreter has exited or is about to).
Ended(p) == video_path[p] /= Empty /\ pc[p] \in {"done", "aborted", "idle"}
WroteOutput(p) == Writes(p, "composer") /= {}

\* The run of p is on the video of the run before it, which has exited,
\* and nothing was deleted in between.
SecondRun(p) ==
    /\ video_path[p] /= Empty
    /\ ctx[p].prev.video = Resolve(video_path[p])
    /\ ctx[p].deleted = {}

\* C1: a run on the video of the run before it, with the cache files left
\* as they were, invokes neither the audio extraction nor the separation
\* model nor the speech-to-text model, and both runs end by writing an
\* output video.
C1_SecondRunReusesCaches ==
    \A p \in Procs :
        SecondRun(p) =>
            /\ \A e \in ops[p] : e.k /= "run"
            /\ ctx[p].prev.ok
            /\ Ended(p) => pc[p] \in {"done", "idle"} /\ WroteOutput(p)

C1_Witness ==
    \E p \in Procs :
        SecondRun(p) /\ ctx[p].prev.ok /\ pc[p] = "done" /\ WroteOutput(p)

\* The run of p follows a completed run on the same video, after which
\* exactly the subtitle file of that video was deleted.
AfterSubtitleDeleted(p) ==
    /\ video_path[p] /= Empty
    /\ ctx[p].prev.video = Resolve(video_path[p])
    /\ ctx[p].prev.ok
    /\ ctx[p].deleted =
         {<<"subtitles", "/", "vocals", "_">>
             \o SubSeq(Basename(video_path[p]), 1, Len(Basename(video_path[p])) - 1)
             \o <<".srt">>}

\* C2: after a completed run, with only the subtitle file deleted, the
\* next run on the same video runs the speech-to-text model and writes the
\* subtitle file again, and neither recomputes nor rewrites the extracted
\* audio or any stem file.
C2_OnlySubtitlesRegenerated ==
    \A p \in Procs :
        AfterSubtitleDeleted(p) =>
            /\ Runs(p, "extractor") = {} /\ Runs(p, "separator") = {}
            /\ Writes(p, "extractor") = {} /\ Writes(p, "separator") = {}
            /\ pc[p] \in {"load_subs", "output_dir", "write_video",
                          "writing_video", "done", "aborted", "idle"} =>
                  /\ Runs(p, "transcriber") /= {}
                  /\ \A f \in ctx[p].deleted :
                        /\ Writers(p, f) = {"transcriber"}
                        /\ f \notin deleted =>
                              f \in DOMAIN fs /\ fs[f].state = "complete"

C2_Witness ==
    \E p \in Procs :
        /\ AfterSubtitleDeleted(p)
        /\ pc[p] = "done"
        /\ Runs(p, "transcriber") /= {}

\* The five files of the scenario, with the subtitle file under the name
\* given.
SongFiles(srt) ==
    { <<"song", ".mp3">>,
      <<"stems", "/", "vocals", "_", "song", ".mp3">>,
      <<"stems", "/", "music", "_", "song", ".mp3">>,
      srt,
      <<"output", "/", "karaoke_", "song", ".mp4">> }

SongDone(p) == pc[p] = "done" /\ Resolve(video_path[p]) = <<"song", ".mp4">>

\* C3 (as amended): after a complete run on song.mp4, song.mp3,
\* stems/vocals_song.mp3, stems/music_song.mp3, output/karaoke_song.mp4
\* and the subtitle file subtitles/vocals_song.srt exist, in directories
\* created on demand.
C3_ArtifactsExist ==
    \A p \in Procs :
        SongDone(p) =>
            /\ \A f \in SongFiles(<<"subtitles", "/", "vocals", "_", "song", ".srt">>) :
                  f \in DOMAIN fs /\ fs[f].state = "complete"
            /\ {"stems", "subtitles", "output"} \subseteq dirs

\* The first run of all, on song.mp4, is complete.
C3_Witness ==
    \E p \in Procs :
        /\ SongDone(p)
        /\ runs = 1
        /\ <<"subtitles", "/", "vocals", "_", "song", ".srt">> \in DOMAIN fs
        /\ Writers(p, <<"song", ".mp3">>) = {"extractor"}

\* C3 as stated: the subtitle file is subtitles/song.srt.
C3_Original ==
    \A p \in Procs :
        SongDone(p) =>
            \A f \in SongFiles(<<"subtitles", "/", "song", ".srt">>) : f \in DOMAIN fs

Raised(p) == \E e \in ops[p] : e.k = "raise"

\* C4: when a step of transcribe raises, transcribe returns "" to create
\* (the exception does not end the run there); create hands "" to the
\* subtitle loader, the run ends in that loader, and the run writes no
\* output video.
C4_SentinelAbortsInLoader ==
    \A p \in Procs :
        Raised(p) =>
            /\ subtitles_file[p] = Empty
            /\ pc[p] \in {"load_subs", "aborted", "idle"}
            /\ ~WroteOutput(p)
            /\ pc[p] /= "load_subs" =>
                  \E e \in ops[p] : e.k = "abort" /\ e.s = "composer" /\ e.f = Empty

C4_Witness ==
    \E p \in Procs :
        /\ Raised(p)
        /\ pc[p] = "aborted"
        /\ \E e \in ops[p] : e.k = "run" /\ e.s = "transcriber"

\* C5: on a host that is neither Darwin nor Windows an invocation ends at
\* startup: no argument is parsed, no stage runs, no file or directory is
\* created or changed.
C5_UnsupportedPlatformStops ==
    platform \notin {"Darwin", "Windows"} =>
        /\ fs = InitFs
        /\ dirs = {}
        /\ \A p \in Procs :
              /\ pc[p] \in {"idle", "startup", "crashed"}
              /\ video_path[p] = Empty
              /\ imagemagick_path[p] = "unset"
              /\ ops[p] = {}

C5_Witness ==
    /\ platform = "Linux"
    /\ \E p \in Procs : pc[p] = "crashed" /\ argv[p] /= Empty

\* The path whose existence invocation p is about to test, and where a hit
\* takes it.
CheckedPath(p) ==
    IF pc[p] = "video_to_mp3" THEN Replace(video_path[p], ".mp4", ".mp3")
    ELSE IF pc[p] = "stems_check"
         THEN <<"stems", "/", "vocals", "_">> \o Basename(audio_path[p])
    ELSE <<"subtitles", "/">>
           \o SubSeq(Basename(vocals_path[p]), 1, Len(Basename(vocals_path[p])) - 1)
           \o <<".srt">>

AfterHit(p) ==
    IF pc[p] = "video_to_mp3" THEN "separate_stems"
    ELSE IF pc[p] = "stems_check" THEN "load_music"
    ELSE "load_subs"

\* C6: with two invocations on the same video, each cache check is decided
\* by the existence of the path alone: whenever the path exists, complete
\* or still being written by the other invocation, the check takes the
\* cached branch and nothing is written or recomputed for it.
C6_ExistenceAloneDecides ==
    [][\A p \in Procs :
          ( /\ pc[p] \in {"video_to_mp3", "stems_check", "transcribe"}
            /\ pc'[p] /= pc[p]
            /\ CheckedPath(p) \in DOMAIN fs )
          => pc'[p] = AfterHit(p) /\ fs' = fs]_vars

\* Invocation p took file f for cached while q was still writing it, and
\* has read it in that state.
ConsumedPartial(p, q, f, at) ==
    /\ \E e \in ops[p] : e.k = "hit" /\ e.f = f /\ e.st = "partial"
    /\ \E e \in ops[p] : e.k = "read" /\ e.f = f /\ e.st = "partial"
    /\ pc[q] = at
    /\ fs[f].state = "partial"

\* One invocation has consumed the other's unfinished audio file and, in
\* the same run, reads its unfinished subtitle file.
C6_Witness ==
    \E p \in Procs : \E q \in Procs \ {p} :
        /\ \E e \in ops[p] : e.k = "hit" /\ e.s = "extractor" /\ e.st = "partial"
        /\ \E e \in ops[p] : e.k = "read" /\ e.s = "separator" /\ e.st = "partial"
        /\ ConsumedPartial(p, q, <<"subtitles", "/", "vocals", "_", "song", ".srt">>,
                           "writing_srt")

\* The files of the run of p, by role.
VideoOf(p) == Resolve(video_path[p])
AudioOf(p) == Resolve(audio_path[p])
VocalsOf(p) == Resolve(vocals_path[p])
MusicOf(p) == Resolve(music_path[p])
SubtitlesOf(p) == Resolve(subtitles_file[p])
OutputOf(p) == <<"output", "/", "karaoke_">> \o Basename(video_path[p])
Artifacts(p) ==
    {VideoOf(p), AudioOf(p), VocalsOf(p), MusicOf(p), SubtitlesOf(p), OutputOf(p)}

\* C7 (as amended): in every run each derived artifact is written by at
\* most one stage, always the same one (audio: extractor; stems:
\* separator; subtitles: transcriber; output: composer) and the source
\* video by none; the extracted audio, the music stem, the subtitle file
\* and the output video are read by at most one stage, while the source
\* video is read by the extractor and the composer and the vocals stem by
\* the transcriber and the composer.
C7_ProducersAndConsumers ==
    \A p \in Procs :
        video_path[p] /= Empty =>
            /\ Writers(p, VideoOf(p)) = {}
            /\ Writers(p, AudioOf(p)) \subseteq {"extractor"}
            /\ Writers(p, VocalsOf(p)) \subseteq {"separator"}
            /\ Writers(p, MusicOf(p)) \subseteq {"separator"}
            /\ Writers(p, SubtitlesOf(p)) \subseteq {"transcriber"}
            /\ Writers(p, OutputOf(p)) \subseteq {"composer"}
            /\ Readers(p, AudioOf(p)) \subseteq {"separator"}
            /\ Readers(p, MusicOf(p)) \subseteq {"composer"}
            /\ Readers(p, SubtitlesOf(p)) \subseteq {"composer"}
            /\ Readers(p, OutputOf(p)) = {}
            /\ Readers(p, VideoOf(p)) \subseteq {"extractor", "composer"}
            /\ Readers(p, VocalsOf(p)) \subseteq {"transcriber", "composer"}

\* A run without caches is complete: five artifacts written once each, the
\* video and the vocals read by two stages each.
C7_Witness ==
    \E p \in Procs :
        /\ pc[p] = "done"
        /\ \A f \in Artifacts(p) \ {VideoOf(p)} : Cardinality(Writers(p, f)) = 1
        /\ Readers(p, VideoOf(p)) = {"extractor", "composer"}
        /\ Readers(p, VocalsOf(p)) = {"transcriber", "composer"}

\* C7 as stated: no artifact has two writing stages, none is read by two
\* stages.
C7_Original ==
    \A p \in Procs :
        video_path[p] /= Empty =>
            \A f \in Artifacts(p) :
                /\ Cardinality(Writers(p, f)) <= 1
                /\ Cardinality(Readers(p, f)) <= 1

\* C8: whatever a run reads was derived from the video given to that run.
C8_OwnInputOnly ==
    \A p \in Procs :
        \A e \in ops[p] :
            e.k = "read" => e.src = Resolve(video_path[p])

\* C9: the music file separate_stems writes holds, sample by sample, the
\* sum of the drums, bass and other stems of the separation result (which
\* are the waveforms of the drums, bass and other files), without the
\* vocals.
C9_MusicIsSumOfNonVocals ==
    \A p \in Procs :
        LET name == Basename(audio_path[p])
            music == <<"stems", "/", "music", "_">> \o name
            stemfile(s) == <<"stems", "/", s, "_">> \o name
        IN  (pc[p] \in {"saving_music", "load_music"} /\ separated[p] /= Empty) =>
              /\ music \in DOMAIN fs
              /\ \A i \in 1..WaveLen :
                    /\ fs[music].wav[i] =
                         separated[p].wav["drums"][i] + separated[p].wav["bass"][i]
                           + separated[p].wav["other"][i]
                    /\ fs[music].wav[i] =
                         fs[stemfile("drums")].wav[i] + fs[stemfile("bass")].wav[i]
                           + fs[stemfile("other")].wav[i]

\* The music file is written for a result whose vocals are not silent and
\* whose three other stems all sound.
C9_Witness ==
    \E p \in Procs :
        /\ pc[p] = "load_music"
        /\ separated[p] /= Empty
        /\ separated[p].wav["vocals"][1] = 1
        /\ fs[<<"stems", "/", "music", "_", "song", ".mp3">>].wav[1] = 3
        /\ fs[<<"stems", "/", "music", "_", "song", ".mp3">>].wav[WaveLen] = 0

\* C10: when separate_stems has returned its pair of paths, both files
\* exist.
C10_ReturnedStemsExist ==
    \A p \in Procs :
        pc[p] = "load_music" =>
            /\ Resolve(vocals_path[p]) \in DOMAIN fs
            /\ Resolve(music_path[p]) \in DOMAIN fs

=============================================================================
